---- MODULE Spec2Model ----
(***************************************************************************)
(* NanoVNASaverHeadless: the acquisition orchestration layer.              *)
(*                                                                         *)
(* One foreground execution context (the caller / consumer) runs the       *)
(* public operations of a NanoVNASaverHeadless session; every live stream  *)
(* starts a background thread running SweepWorker.run.  The foreground is  *)
(* split at every access to state shared with the background threads       *)
(* (worker.running, worker.data11, worker.data21, Thread.join), so every   *)
(* interleaving of the two contexts is a behaviour of the model.           *)
(*                                                                         *)
(* SweepWorker, CalibrationGuide and the instrument handle are imported by *)
(* src/src/NanoVNASaverHeadless.py but are not among the source files;     *)
(* their behaviour is taken from the specification (sections 3, 4.2, 4.3   *)
(* and 6).                                                                 *)
(***************************************************************************)
EXTENDS Naturals, FiniteSets, Sequences, TLC

\* Number of generator objects stream_data() may hand out in one session.
MaxStreams == 2
\* Number of distinct SweepResult values a sweep pass may publish.
NVals == 2
\* Largest number of "continue" answers the calibration guide's step() gives.
MaxK == 3
\* Largest frequency set_sweep is given; 0 stands for any non-positive one.
MaxHz == 2
\* Largest segment count and point count set_sweep is given; 0 as above.
MaxCount == 1
\* Largest nr_sweeps and skip_start save_csv is given.
MaxSweeps == 2
MaxSkip == 1
\* _csv_streamer's data_points: the number of lines a sweep is stored as.
data_points == 5
\* Largest number of data lines in a recording.
MaxLines == 11

Streams == 1..MaxStreams
\* 0 is the worker's initial (empty) data, before any pass has published.
Values == 1..NVals
\* What calibrate may be given as load_file (default False) and savefile
\* (default None).
LoadFiles == {"False", "cal.s2p"}
SaveFiles == {"None", "new.s2p"}
\* What stream_data may be given as data_file: False (a live stream) or the
\* path of a recording.
Kinds == {"live", "file"}
None == <<>>

VARIABLES
    playback_mode,  \* self.playback_mode
    connected,      \* self.vna.connected()
    running,        \* self.worker.running
    mode,           \* self.worker.sweep mode
    data11,         \* self.worker.data11 (the S11 part of the latest pass)
    data21,         \* self.worker.data21 (the S21 part of the latest pass)
    worker_thread,  \* self.worker_thread: 0 while the attribute does not exist
    thr,            \* thr[t]: position of the thread started for stream t
    gen,            \* gen[g]: state of the generator object stream_data() returned:
                    \* unused, fresh, running, suspended, left (suspended, and the
                    \* consumer has left its loop over it), done
    out,            \* the last result a stream yielded, [g, val |-> <<s11, s21>>],
                    \* or None once that stream has ended
    dup,            \* the last yield repeated the value of the yield before it,
                    \* and both came from the same stream
    fg,             \* the foreground's position inside the operation it runs
    data_s11,       \* _get_data's local data_s11 between its two reads
    ret,            \* how the last operation ended, until the next one starts: kept
                    \* for stop, kill and single_sweep and for every error
    cal,            \* the calibration guide and the calls calibrate() made to it
    kind,           \* kind[g]: what stream_data() was given for generator g: "live"
                    \* (data_file=False) or "file" (a recording)
    sweep,          \* self.worker.sweep: the sweep configuration
    sav,            \* the last save_csv call: its arguments and the file it wrote
    csv             \* the replay of a recording by plot(animate=True, data_file, loop)

vars == <<playback_mode, connected, running, mode, data11, data21, worker_thread,
          thr, gen, out, dup, fg, data_s11, ret, cal, kind, sweep, sav, csv>>

session == <<playback_mode, connected>>
worker == <<running, mode, data11, data21>>
streams == <<gen, out, dup>>
config == <<sweep, sav, csv>>
others == <<kind, config>>

Idle == [op |-> "idle", g |-> 0, step |-> "idle", second |-> FALSE]
At(op, g, step) == [op |-> op, g |-> g, step |-> step, second |-> fg.second]
NoRet == [op |-> "none", res |-> "none", second |-> FALSE]
Ret(op, res) == [op |-> op, res |-> res, second |-> fg.second]

\* The calls one calibrate() makes to the guide (load, start, step, save), the
\* "continue" answers it has received (cont), its local proceed, and the guide:
\* start() answers ans, step() answers "continue" exactly k times (togo are left).
\* A SweepConfig (mode apart, which is the variable mode).
SweepConfig(start, stop, segments, points) ==
    [start |-> start, stop |-> stop, segments |-> segments, points |-> points]

\* self.worker.sweep as the worker is constructed; with it the arguments of the
\* last set_sweep call (args) and the configuration that call found (before).
DefaultSweep ==
    LET c == SweepConfig(1, 1, 1, 1)
    IN [config |-> c, args |-> c, before |-> c]

\* No save_csv call yet; after one: its arguments, whether the file was created,
\* whether the header row is in it, and the data rows written to it.
NoSave == [nr_sweeps |-> 0, skip_start |-> 0, created |-> FALSE,
           header |-> FALSE, rows |-> 0]
\* No plot call yet.  During one: the recording (the rows it was written
\* from, in file order, and whether a further line in another format follows
\* them), whether the path can be opened, plot's loop argument, the index i of
\* the next line _csv_streamer reads, the records the current pass over the
\* file has yielded, and where plot is: idle, open (stream_data(data_file) is
\* about to be called and pulled from), reading, join, ended (plot returned)
\* or raised (plot ended in an error).
NoReplay == [rows |-> <<>>, tail |-> FALSE, readable |-> TRUE, loop |-> FALSE,
             i |-> 0, got |-> <<>>, st |-> "idle"]

NoCal == [load |-> 0, start |-> 0, step |-> 0, save |-> 0, cont |-> 0,
          proceed |-> FALSE, k |-> 0, togo |-> 0, ans |-> FALSE,
          load_file |-> "False", savefile |-> "None", saved |-> "None"]

\* A thread is alive from Thread.start() until run() has returned or raised.
Alive(t) == thr[t] \in {"started", "pass", "check", "exit"}

Init ==
    /\ playback_mode \in BOOLEAN
    /\ connected = ~playback_mode
    /\ running = FALSE
    /\ mode = "SINGLE"
    /\ data11 = 0
    /\ data21 = 0
    /\ worker_thread = 0
    /\ thr = [t \in Streams |-> "none"]
    /\ gen = [g \in Streams |-> "unused"]
    /\ out = None
    /\ dup = FALSE
    /\ fg = Idle
    /\ data_s11 = 0
    /\ ret = NoRet
    /\ cal = NoCal
    /\ kind = [g \in Streams |-> "live"]
    /\ sweep = DefaultSweep
    /\ sav = NoSave
    /\ csv = NoReplay

----------------------------------------------------------------------------
(* SweepWorker.run, on a background thread or on the foreground *)

\* run() enters the running state (RunState idle -> running).
RunBegin == running' = TRUE

\* One sweep pass completes and publishes its result as one unit.
RunPass ==
    \E v \in Values :
        /\ data11' = v
        /\ data21' = v

\* run() leaves the running state (RunState running -> idle) and returns.
RunExit == running' = FALSE

run_begin(t) ==
    /\ thr[t] = "started"
    /\ RunBegin
    /\ thr' = [thr EXCEPT ![t] = "pass"]
    /\ UNCHANGED <<session, mode, data11, data21, worker_thread, streams, fg,
                   data_s11, ret, cal, others>>

run_pass(t) ==
    /\ thr[t] = "pass"
    /\ RunPass
    /\ thr' = [thr EXCEPT ![t] = IF mode = "CONTINOUS" THEN "check" ELSE "exit"]
    /\ UNCHANGED <<session, running, mode, worker_thread, streams, fg,
                   data_s11, ret, cal, others>>

\* Between two passes the continuous loop reads the running flag.
run_check(t) ==
    /\ thr[t] = "check"
    /\ thr' = [thr EXCEPT ![t] = IF running THEN "pass" ELSE "exit"]
    /\ UNCHANGED <<session, worker, worker_thread, streams, fg, data_s11, ret, cal,
                   others>>

run_exit(t) ==
    /\ thr[t] = "exit"
    /\ RunExit
    /\ thr' = [thr EXCEPT ![t] = "done"]
    /\ UNCHANGED <<session, mode, data11, data21, worker_thread, streams, fg,
                   data_s11, ret, cal, others>>

\* The producer raises during a pass: the exception leaves run(), which is the
\* thread's target, so the thread ends and nothing after the pass is executed.
run_raise(t) ==
    /\ thr[t] = "pass"
    /\ thr' = [thr EXCEPT ![t] = "failed"]
    /\ UNCHANGED <<session, worker, worker_thread, streams, fg, data_s11, ret, cal,
                   others>>

----------------------------------------------------------------------------
(* single_sweep: worker.run() on the foreground, then _get_data *)

single_sweep ==
    /\ fg = Idle
    /\ IF playback_mode
       THEN /\ ret' = Ret("single_sweep", "ok")
            /\ UNCHANGED <<mode, fg>>
       ELSE /\ mode' = "SINGLE"
            /\ fg' = At("single_sweep", 0, "run")
            /\ ret' = NoRet
    /\ UNCHANGED <<session, running, data11, data21, worker_thread, thr, streams,
                   data_s11, cal, others>>

sweep_run_begin ==
    /\ fg.op = "single_sweep"
    /\ fg.step = "run"
    /\ RunBegin
    /\ fg' = At("single_sweep", 0, "pass")
    /\ UNCHANGED <<session, mode, data11, data21, worker_thread, thr, streams,
                   data_s11, ret, cal, others>>

\* single_sweep has just set the mode to SINGLE: one pass, then run() returns.
sweep_run_pass ==
    /\ fg.op = "single_sweep"
    /\ fg.step = "pass"
    /\ RunPass
    /\ fg' = At("single_sweep", 0, "exit")
    /\ UNCHANGED <<session, running, mode, worker_thread, thr, streams,
                   data_s11, ret, cal, others>>

sweep_run_exit ==
    /\ fg.op = "single_sweep"
    /\ fg.step = "exit"
    /\ RunExit
    /\ fg' = At("single_sweep", 0, "s11")
    /\ UNCHANGED <<session, mode, data11, data21, worker_thread, thr, streams,
                   data_s11, ret, cal, others>>

\* The pass raises on the foreground: single_sweep ends in that error.
sweep_run_raise ==
    /\ fg.op = "single_sweep"
    /\ fg.step = "pass"
    /\ fg' = Idle
    /\ ret' = Ret("single_sweep", "SweepError")
    /\ UNCHANGED <<session, worker, worker_thread, thr, streams, data_s11, cal,
                   others>>

----------------------------------------------------------------------------
(* stream_data: the generator object and its consumer *)

\* Calling stream_data() only creates the generator object: no line of its
\* body runs before the first next().
stream_data(g) ==
    /\ fg = Idle
    /\ gen[g] = "unused"
    /\ \A h \in Streams : h < g => gen[h] # "unused"
    /\ gen' = [gen EXCEPT ![g] = "fresh"]
    /\ \E data_file \in Kinds : kind' = [kind EXCEPT ![g] = data_file]
    /\ ret' = NoRet
    /\ UNCHANGED <<session, worker, worker_thread, thr, out, dup, fg,
                   data_s11, cal, config>>

\* A mutation of _stream_data: the thread is created but start() is missing.
_stream_data_without_start(g) ==
    /\ mode' = "CONTINOUS"
    /\ worker_thread' = g
    /\ UNCHANGED thr

\* _stream_data: set the mode, create the thread, start it.
_stream_data(g) ==
    /\ mode' = "CONTINOUS"
    /\ worker_thread' = g
    /\ thr' = [thr EXCEPT ![g] = "started"]

\* The first next() of a live stream: lines 105-109.  In playback mode
\* self.worker does not exist and _stream_data raises before the try block.
stream_first_next(g) ==
    /\ fg = Idle
    /\ gen[g] = "fresh"
    /\ kind[g] = "live"
    /\ IF playback_mode
       THEN /\ gen' = [gen EXCEPT ![g] = "done"]
            /\ ret' = Ret("next", "AttributeError")
            /\ UNCHANGED <<mode, worker_thread, thr, fg>>
       ELSE /\ _stream_data(g)
            /\ gen' = [gen EXCEPT ![g] = "running"]
            /\ fg' = At("next", g, "while")
            /\ ret' = NoRet
    /\ UNCHANGED <<session, running, data11, data21, out, dup, data_s11, cal,
                   others>>

\* The generator g has ended: it holds no result any more.
Ended(g) ==
    /\ gen' = [gen EXCEPT ![g] = "done"]
    /\ out' = IF out # None /\ out.g = g THEN None ELSE out
    /\ dup' = IF out # None /\ out.g = g THEN FALSE ELSE dup

\* _stop_worker, entered by the foreground running operation op on stream g
\* (0: on no stream): line 173, then the read of self.worker_thread of line 174.
StopWorkerEnter(op, g) ==
    /\ running' = FALSE
    /\ IF worker_thread = 0
       THEN /\ fg' = Idle
            /\ ret' = Ret(op, "AttributeError")
            /\ IF g = 0 THEN UNCHANGED <<gen, out, dup>> ELSE Ended(g)
       ELSE /\ fg' = At(op, g, "join")
            /\ ret' = NoRet
            /\ UNCHANGED <<out, dup>>
            /\ gen' = IF g = 0 THEN gen ELSE [gen EXCEPT ![g] = "running"]

\* stream_data's finally block, lines 117-121: _stop_worker, which does nothing
\* in playback mode (line 172).
Finally(op, g) ==
    IF playback_mode
    THEN /\ Ended(g)
         /\ fg' = Idle
         /\ ret' = NoRet
         /\ UNCHANGED running
    ELSE StopWorkerEnter(op, g)

\* _access_data's loop condition; when it is false the stream is exhausted
\* and stream_data's finally block calls _stop_worker.
AccessLoop(g) ==
    IF running
    THEN /\ fg' = At("next", g, "s11")
         /\ gen' = [gen EXCEPT ![g] = "running"]
         /\ ret' = NoRet
         /\ UNCHANGED <<running, out, dup>>
    ELSE StopWorkerEnter("next", g)

\* The loop condition as the first next() reaches it, after _stream_data.
_access_data ==
    /\ fg.op = "next"
    /\ fg.step = "while"
    /\ AccessLoop(fg.g)
    /\ UNCHANGED <<session, mode, data11, data21, worker_thread, thr, data_s11, cal,
                   others>>

\* A later next(): the generator resumes after its yield, at the loop condition.
stream_next(g) ==
    /\ fg = Idle
    /\ gen[g] = "suspended"
    /\ kind[g] = "live"
    /\ AccessLoop(g)
    /\ UNCHANGED <<session, mode, data11, data21, worker_thread, thr, data_s11, cal,
                   others>>

\* A next() of a recorded stream, lines 108-114 with data_file given: no
\* thread is started; _csv_streamer yields its next record, or it is exhausted
\* (at once when the file holds no whole record or cannot be read) and the
\* finally block runs.
stream_file_next(g) ==
    /\ fg = Idle
    /\ gen[g] \in {"fresh", "suspended"}
    /\ kind[g] = "file"
    /\ \E more \in BOOLEAN :
        IF more
        THEN /\ gen' = [gen EXCEPT ![g] = "suspended"]
             /\ ret' = NoRet
             /\ UNCHANGED <<running, out, dup, fg>>
        ELSE Finally("next", g)
    /\ UNCHANGED <<session, mode, data11, data21, worker_thread, thr, data_s11, cal,
                   others>>

\* _get_data, line 182: data_s11 = self.worker.data11
_get_data_s11 ==
    /\ fg.step = "s11"
    /\ data_s11' = data11
    /\ fg' = At(fg.op, fg.g, "s21")
    /\ UNCHANGED <<session, worker, worker_thread, thr, streams, ret, cal,
                   others>>

\* _get_data, line 183: data_s21 = self.worker.data21, and the result is
\* returned: single_sweep returns it, stream_data yields it.
_get_data_s21 ==
    /\ fg.step = "s21"
    /\ LET result == <<data_s11, data21>>
           g == fg.g
       IN IF fg.op = "next"
          THEN /\ out' = [g |-> g, val |-> result]
               /\ dup' = (out = [g |-> g, val |-> result])
               /\ gen' = [gen EXCEPT ![g] = "suspended"]
               /\ ret' = NoRet
          ELSE /\ ret' = Ret(fg.op, "ok")
               /\ UNCHANGED <<out, dup, gen>>
    /\ data_s11' = 0
    /\ fg' = Idle
    /\ UNCHANGED <<session, worker, worker_thread, thr, cal, others>>

\* The consumer leaves its loop over g (a break, or an exception in the loop
\* body) and keeps the generator object: nothing of the generator runs.
consumer_leave(g) ==
    /\ fg = Idle
    /\ gen[g] = "suspended"
    /\ gen' = [gen EXCEPT ![g] = "left"]
    /\ ret' = NoRet
    /\ UNCHANGED <<session, worker, worker_thread, thr, out, dup, fg, data_s11, cal,
                   others>>

\* close() of the generator, by the consumer or by its finalisation once it is
\* unreferenced: GeneratorExit at the yield, then the finally block.
stream_close(g) ==
    /\ fg = Idle
    /\ gen[g] \in {"fresh", "suspended", "left"}
    /\ IF gen[g] = "fresh"
       THEN /\ Ended(g)
            /\ ret' = NoRet
            /\ UNCHANGED <<running, fg>>
       ELSE Finally("close", g)
    /\ UNCHANGED <<session, mode, data11, data21, worker_thread, thr, data_s11, cal,
                   others>>

\* _stop_worker called on its own (the specification's stop()).
_stop_worker ==
    /\ fg = Idle
    /\ IF playback_mode
       THEN /\ ret' = Ret("stop", "ok")
            /\ UNCHANGED <<running, fg, streams>>
       ELSE StopWorkerEnter("stop", 0)
    /\ UNCHANGED <<session, mode, data11, data21, worker_thread, thr, data_s11, cal,
                   others>>

\* kill, lines 340-343; second: the operation before this one was a kill too.
kill ==
    /\ fg = Idle
    /\ LET twice == (ret.op = "kill")
       IN IF playback_mode
          THEN /\ ret' = [Ret("kill", "ok") EXCEPT !.second = twice]
               /\ UNCHANGED <<running, fg>>
          ELSE /\ running' = FALSE
               /\ IF worker_thread = 0
                  THEN /\ fg' = Idle
                       /\ ret' = [Ret("kill", "AttributeError") EXCEPT !.second = twice]
                  ELSE /\ fg' = [At("kill", 0, "join") EXCEPT !.second = twice]
                       /\ ret' = NoRet
    /\ UNCHANGED <<session, mode, data11, data21, worker_thread, thr, streams,
                   data_s11, cal, others>>

\* self.worker_thread.join() returns once that thread has ended; what follows
\* depends on who called _stop_worker.
join ==
    /\ fg.step = "join"
    /\ ~Alive(worker_thread)
    /\ IF fg.op = "kill"
       THEN /\ fg' = At("kill", 0, "disconnect")
            /\ UNCHANGED <<streams, ret>>
       ELSE /\ fg' = Idle
            /\ IF fg.g = 0 THEN UNCHANGED streams ELSE Ended(fg.g)
            /\ ret' = IF fg.op = "stop" THEN Ret("stop", "ok") ELSE NoRet
    /\ UNCHANGED <<session, worker, worker_thread, thr, data_s11, cal, others>>

\* kill, lines 344-350: the disconnect request and the check of the handle.
kill_disconnect ==
    /\ fg.op = "kill"
    /\ fg.step = "disconnect"
    /\ \E honoured \in BOOLEAN :
        connected' = IF honoured THEN FALSE ELSE connected
    /\ ret' = Ret("kill", IF connected' THEN "DisconnectFailure" ELSE "ok")
    /\ fg' = Idle
    /\ UNCHANGED <<playback_mode, worker, worker_thread, thr, streams, data_s11, cal,
                   others>>

----------------------------------------------------------------------------
(* calibrate and the calibration guide *)

\* Python's truth value of the load_file argument ("if load_file:").
Truthy(load_file) == load_file \notin {"False", ""}

\* A mutation of loadCalibration: the return of line 57 is missing.
loadCalibration_falls_through(c) ==
    /\ cal' = [c EXCEPT !.load = 1]
    /\ fg' = At("calibrate", 0, "start")
    /\ ret' = NoRet

\* Lines 55-57: load the calibration and return.
loadCalibration(c) ==
    /\ cal' = [c EXCEPT !.load = 1]
    /\ fg' = Idle
    /\ ret' = Ret("calibrate", "ok")

\* calibrate, lines 52-57: c is the guide as the call finds it, no call made.
calibrate ==
    /\ fg = Idle
    /\ \E savefile \in SaveFiles, load_file \in LoadFiles, k \in 0..MaxK, ans \in BOOLEAN :
        LET c == [NoCal EXCEPT !.k = k, !.togo = k, !.ans = ans,
                               !.load_file = load_file, !.savefile = savefile]
        IN IF playback_mode
           THEN /\ cal' = c
                /\ ret' = Ret("calibrate", "ok")
                /\ UNCHANGED fg
           ELSE IF Truthy(load_file)
           THEN loadCalibration(c)
           ELSE /\ cal' = c
                /\ fg' = At("calibrate", 0, "start")
                /\ ret' = NoRet
    /\ UNCHANGED <<session, worker, worker_thread, thr, streams, data_s11,
                   others>>

\* Line 58: proceed = self.CalibrationGuide.automaticCalibration()
automaticCalibration ==
    /\ fg.op = "calibrate"
    /\ fg.step = "start"
    /\ cal' = [cal EXCEPT !.start = @ + 1, !.proceed = cal.ans,
                          !.cont = @ + (IF cal.ans THEN 1 ELSE 0)]
    /\ fg' = At("calibrate", 0, "loop")
    /\ UNCHANGED <<session, worker, worker_thread, thr, streams, data_s11, ret,
                   others>>

\* A mutation of the loop condition: a do-while, whose body runs once before
\* proceed is looked at.
while_proceed_do_while == cal.proceed \/ cal.step = 0

\* Line 59: while proceed
while_proceed == cal.proceed

\* Line 60: proceed = self.CalibrationGuide.automaticCalibrationStep()
automaticCalibrationStep ==
    /\ fg.op = "calibrate"
    /\ fg.step = "loop"
    /\ while_proceed
    /\ LET answer == cal.togo > 0
       IN cal' = [cal EXCEPT !.step = @ + 1, !.proceed = answer,
                             !.togo = IF answer THEN @ - 1 ELSE @,
                             !.cont = @ + (IF answer THEN 1 ELSE 0)]
    /\ UNCHANGED <<session, worker, worker_thread, thr, streams, data_s11, fg, ret,
                   others>>

\* Lines 61-63: the default file name, saveCalibration, and the return.
saveCalibration ==
    /\ fg.op = "calibrate"
    /\ fg.step = "loop"
    /\ ~while_proceed
    /\ cal' = [cal EXCEPT !.save = @ + 1,
                          !.saved = IF cal.savefile = "None"
                                    THEN "Calibration_file_now.s2p"
                                    ELSE cal.savefile]
    /\ fg' = Idle
    /\ ret' = Ret("calibrate", "ok")
    /\ UNCHANGED <<session, worker, worker_thread, thr, streams, data_s11,
                   others>>

----------------------------------------------------------------------------
(* set_sweep and the worker's sweep configuration *)

\* The sweep configuration accepts bounds that are all positive with
\* start <= stop.
ValidConfig(c) ==
    /\ c.start > 0
    /\ c.stop > 0
    /\ c.segments > 0
    /\ c.points > 0
    /\ c.start <= c.stop

\* self.worker.sweep.update: an invalid configuration is refused with
\* InvalidConfig and the configuration stays as it was; a valid one replaces it.
update(old, c) == IF ValidConfig(c) THEN c ELSE old

\* A mutation of set_sweep_outcome: the call of update sits in a try block that
\* prints the error, as save_csv's body does.
set_sweep_outcome_caught(c) == "ok"

\* Line 77 is in no try block: what update raises leaves set_sweep.
set_sweep_outcome(c) == IF ValidConfig(c) THEN "ok" ELSE "InvalidConfig"

\* set_sweep, lines 74-86.
set_sweep ==
    /\ fg = Idle
    /\ \E start \in 0..MaxHz, stop \in 0..MaxHz,
          segments \in 0..MaxCount, points \in 0..MaxCount :
        LET c == SweepConfig(start, stop, segments, points)
        IN IF playback_mode
           THEN /\ sweep' = [sweep EXCEPT !.args = c, !.before = sweep.config]
                /\ ret' = Ret("set_sweep", "ok")
           ELSE /\ sweep' = [config |-> update(sweep.config, c), args |-> c,
                             before |-> sweep.config]
                /\ ret' = Ret("set_sweep", set_sweep_outcome(c))
    /\ UNCHANGED <<session, worker, worker_thread, thr, streams, fg, data_s11, cal,
                   kind, sav, csv>>

----------------------------------------------------------------------------
(* save_csv *)

\* save_csv, lines 300-332.  The file is opened for writing (line 315), and
\* line 317 calls writer.writerow with five arguments: writerow takes exactly
\* one, so the call raises TypeError before the header is written and before
\* stream_data() is called; line 331 catches it, prints it, and save_csv
\* returns.
save_csv ==
    /\ fg = Idle
    /\ \E nr_sweeps \in 1..MaxSweeps, skip_start \in 0..MaxSkip :
        IF playback_mode
        THEN UNCHANGED sav
        ELSE sav' = [nr_sweeps |-> nr_sweeps, skip_start |-> skip_start,
                     created |-> TRUE, header |-> FALSE, rows |-> 0]
    /\ ret' = Ret("save_csv", "ok")
    /\ UNCHANGED <<session, worker, worker_thread, thr, streams, fg, data_s11, cal,
                   kind, sweep, csv>>

----------------------------------------------------------------------------
(* Recordings, _csv_streamer, and plot's replay loop *)

\* The rows a recording is written from: each a list of numbers.
Rows == {<<1, 2>>, <<2, 1>>}

\* The text of a number; a text is a sequence of characters.
Digits == <<"0", "1", "2", "3", "4", "5", "6", "7", "8", "9">>

\* A data row of the recording format: the tokens of the row, separated by a
\* comma and a space, and the end of the line.
RECURSIVE Joined(_)
Joined(row) ==
    IF row = <<>> THEN <<>>
    ELSE IF Len(row) = 1 THEN <<Digits[row[1] + 1]>>
    ELSE <<Digits[row[1] + 1], ",", " ">> \o Joined(Tail(row))

DataLine(row) == Joined(row) \o <<"\n">>

\* A line in another format: the row <<1, 2>> separated by a comma alone, as
\* csv.writer writes a row.
CompactLine == <<"1", ",", "2", "\n">>

\* The header row of the recording.
HeaderLine == <<"F", "r", "e", "q", "\n">>

\* f.readlines() of a recording: the header line, the data lines, and the
\* line in another format if there is one.
RECURSIVE DataLines(_)
DataLines(rows) ==
    IF rows = <<>> THEN <<>> ELSE <<DataLine(Head(rows))>> \o DataLines(Tail(rows))

readlines(rows, tail) ==
    <<HeaderLine>> \o DataLines(rows) \o (IF tail THEN <<CompactLine>> ELSE <<>>)

\* line.replace("\n", "")
replace(line) == SelectSeq(line, LAMBDA c : c # "\n")

\* text.split(", "): the pieces between the occurrences of ", ", found from
\* the left; cur is the piece being read.
RECURSIVE split(_, _)
split(text, cur) ==
    IF text = <<>> THEN <<cur>>
    ELSE IF Len(text) >= 2 /\ text[1] = "," /\ text[2] = " "
    THEN <<cur>> \o split(SubSeq(text, 3, Len(text)), <<>>)
    ELSE split(Tail(text), Append(cur, Head(text)))

\* str.strip(), which float() applies to its argument.
RECURSIVE strip(_)
strip(x) ==
    IF x = <<>> THEN x
    ELSE IF Head(x) = " " THEN strip(Tail(x))
    ELSE IF x[Len(x)] = " " THEN strip(SubSeq(x, 1, Len(x) - 1))
    ELSE x

\* float(x): <<the number>>, or <<>> for ValueError.
float(x) ==
    LET t == strip(x)
    IN IF Len(t) = 1 /\ \E v \in 0..9 : Digits[v + 1] = t[1]
       THEN <<CHOOSE v \in 0..9 : Digits[v + 1] = t[1]>>
       ELSE <<>>

\* Lines 147-149: [float(x) for x in line.replace("\n", "").split(", ")];
\* raised: one of the tokens is no number.
ParseLine(line) ==
    LET tokens == split(replace(line), <<>>)
        values == [k \in 1..Len(tokens) |-> float(tokens[k])]
    IN [raised |-> \E k \in 1..Len(tokens) : values[k] = <<>>,
        row |-> [k \in 1..Len(tokens) |->
                    IF values[k] = <<>> THEN 0 ELSE values[k][1]]]

\* A mutation of PackageFull: the package is yielded one line late.
PackageFull_late(counter) == counter > data_points

\* Line 151: if counter == data_points
PackageFull(counter) == counter = data_points

\* _csv_streamer from line i of data (counted from 0), with the package and
\* the counter as they are, up to its next yield or its end: the loop of lines
\* 145-154.  A ValueError of line 148 is caught at line 155 and printed, and
\* the generator ends.
RECURSIVE _csv_streamer(_, _, _, _)
_csv_streamer(data, i, package, counter) ==
    IF i >= Len(data)
    THEN [yield |-> FALSE, package |-> <<>>, i |-> i]
    ELSE IF i = 0
    THEN _csv_streamer(data, i + 1, package, counter)
    ELSE LET parsed == ParseLine(data[i + 1])
         IN IF parsed.raised
            THEN [yield |-> FALSE, package |-> <<>>, i |-> Len(data)]
            ELSE IF PackageFull(counter + 1)
            THEN [yield |-> TRUE, package |-> Append(package, parsed.row), i |-> i + 1]
            ELSE _csv_streamer(data, i + 1, Append(package, parsed.row), counter + 1)

\* The recordings plot is given: up to MaxLines data lines, and possibly one
\* more line in another format after them.
Recordings ==
    UNION {[1..n -> Rows] : n \in 0..MaxLines}

\* plot(animate=True, data_file, loop) is called, lines 207-223, in a session
\* in which no live stream was opened.
plot ==
    /\ fg = Idle
    /\ csv.st = "idle"
    /\ worker_thread = 0
    /\ \E rows \in Recordings, tail \in BOOLEAN, readable \in BOOLEAN, loop \in BOOLEAN :
        /\ Len(rows) + (IF tail THEN 1 ELSE 0) <= MaxLines
        /\ ~readable => (rows = <<>> /\ ~tail)
        /\ csv' = [rows |-> rows, tail |-> tail, readable |-> readable,
                   loop |-> loop, i |-> 0, got |-> <<>>, st |-> "open"]
    /\ fg' = At("plot", 0, "while")
    /\ ret' = NoRet
    /\ UNCHANGED <<session, worker, worker_thread, thr, streams, data_s11, cal,
                   kind, sweep, sav>>

\* Lines 224-226 and 239: data = self.stream_data(data_file), and one next() of
\* it by the for loop.  The first next() calls _csv_streamer, whose open()
\* fails on an unreadable path: line 155 catches and prints the error and the
\* generator ends.  When _csv_streamer has ended, stream_data's finally block
\* calls _stop_worker; if that returns, run = data_file and loop.
plot_next ==
    /\ fg.op = "plot"
    /\ fg.step = "while"
    /\ LET r == IF csv.readable
                THEN _csv_streamer(readlines(csv.rows, csv.tail), csv.i, <<>>, 0)
                ELSE [yield |-> FALSE, package |-> <<>>, i |-> 0]
       IN IF r.yield
          THEN /\ csv' = [csv EXCEPT !.i = r.i, !.got = Append(@, r.package),
                                     !.st = "reading"]
               /\ UNCHANGED <<running, fg, ret>>
          ELSE IF playback_mode
          THEN /\ IF csv.loop
                  THEN /\ csv' = [csv EXCEPT !.i = 0, !.got = <<>>, !.st = "open"]
                       /\ UNCHANGED <<fg, ret>>
                  ELSE /\ csv' = [csv EXCEPT !.i = r.i, !.st = "ended"]
                       /\ fg' = Idle
                       /\ ret' = Ret("plot", "ok")
               /\ UNCHANGED running
          ELSE /\ StopWorkerEnter("plot", 0)
               /\ csv' = [csv EXCEPT !.i = r.i,
                                     !.st = IF worker_thread = 0 THEN "raised" ELSE "join"]
    /\ UNCHANGED <<session, mode, data11, data21, worker_thread, thr, streams,
                   data_s11, cal, kind, sweep, sav>>

----------------------------------------------------------------------------
ThreadStep(t) ==
    \/ run_begin(t)
    \/ run_pass(t)
    \/ run_check(t)
    \/ run_exit(t)
    \/ run_raise(t)

\* A session: any operation whenever the foreground is free, any interleaving
\* with the background threads.
Next ==
    \/ \E t \in Streams : ThreadStep(t)
    \/ \E g \in Streams : stream_data(g)
    \/ \E g \in Streams : stream_first_next(g)
    \/ \E g \in Streams : stream_next(g)
    \/ \E g \in Streams : stream_file_next(g)
    \/ _access_data
    \/ _get_data_s11
    \/ _get_data_s21
    \/ \E g \in Streams : consumer_leave(g)
    \/ \E g \in Streams : stream_close(g)
    \/ _stop_worker
    \/ kill
    \/ join
    \/ kill_disconnect
    \/ single_sweep
    \/ sweep_run_begin
    \/ sweep_run_pass
    \/ sweep_run_exit
    \/ sweep_run_raise

Spec == Init /\ [][Next]_vars

\* A session in which only calibrate is called, with every argument and guide.
CalNext ==
    \/ calibrate
    \/ automaticCalibration
    \/ automaticCalibrationStep
    \/ saveCalibration

CalSpec == Init /\ [][CalNext]_vars

\* A session in which the sweep is configured and recordings are saved, with
\* every argument; neither operation starts a thread or opens a stream.
ConfigNext ==
    \/ set_sweep
    \/ save_csv

ConfigSpec == Init /\ [][ConfigNext]_vars

\* A session in which a recording is replayed by plot, for every recording.
ReplayNext ==
    \/ plot
    \/ plot_next

ReplaySpec == Init /\ [][ReplayNext]_vars

\* One live stream and its consumer (src/main.py, lines 14-15: a for loop over
\* vna.stream_data(); the consumer may also close the stream), under a fair
\* scheduler: the thread and the foreground each take their next step.
StreamForeground ==
    \/ stream_data(1)
    \/ stream_first_next(1)
    \/ stream_next(1)
    \/ stream_file_next(1)
    \/ _access_data
    \/ _get_data_s11
    \/ _get_data_s21
    \/ stream_close(1)
    \/ join

StreamNext ==
    \/ ThreadStep(1)
    \/ StreamForeground

StreamSpec ==
    /\ Init
    /\ [][StreamNext]_vars
    /\ WF_vars(ThreadStep(1))
    /\ WF_vars(StreamForeground)

----------------------------------------------------------------------------
(* The claims *)

AliveThreads == {t \in Streams : Alive(t)}

\* C1: once the consumer has left a live stream (it is exhausted or closed, or
\* the consumer broke out of its loop or raised in it) and control is back at
\* the caller, the thread started for that stream has ended.
C1_NoThreadOutlivesItsStream ==
    \A g \in Streams : gen[g] \in {"left", "done"} => ~Alive(g)

\* C2: at most one background worker thread is alive in any state of a session.
C2_AtMostOneThreadAlive == Cardinality(AliveThreads) <= 1

\* C3: _stop_worker completes without raising in every session state, leaves
\* worker.running false and returns only once no background thread is running.
C3_StopIsSafeEverywhere ==
    ret.op = "stop" => /\ ret.res = "ok"
                       /\ ~running
                       /\ AliveThreads = {}

\* C4: a kill that directly follows a kill does not raise and leaves the session
\* with no thread alive and the instrument disconnected (a handle that does not
\* honour the disconnect request is C5's case, not counted here).
C4_SecondKillDoesNotRaise ==
    (ret.op = "kill" /\ ret.second /\ ret.res # "DisconnectFailure")
        => /\ ret.res = "ok"
           /\ ~connected
           /\ AliveThreads = {}

\* C5: kill has stopped every stream when it disconnects; it ends in an error
\* when the handle is still connected after the request, and when it returns
\* normally the handle is disconnected and no background thread is alive.
C5_KillOutcomeFollowsHandle ==
    /\ (fg.op = "kill" /\ fg.step = "disconnect") => AliveThreads = {}
    /\ (ret.op = "kill" /\ connected) => ret.res # "ok"
    /\ (ret.op = "kill" /\ ret.res = "ok") => ~connected /\ AliveThreads = {}

\* C6: a live stream never yields the same SweepResult value twice in a row.
C6_NoDuplicateInARow == ~dup

\* C7: the S11 part and the S21 part of every result a live stream yields come
\* from the same sweep pass (every pass publishes the same value in both).
C7_ResultFromOnePass == out # None => out.val[1] = out.val[2]

\* C8: once the producer has raised in the background thread of a live stream,
\* the consumer's sequence eventually ends.
C8_StreamEndsAfterRaise == (thr[1] = "failed") ~> (gen[1] = "done")

\* C9: in a session that has a guide (not playback mode), calibrate() without a
\* load file calls start() exactly once and step() once for every "continue"
\* answer received, stopping at the first "no more steps": when it returns it
\* has made 1 start() call and, if start() answered true, k+1 step() calls for
\* a guide that continues exactly k times, else none.
C9_CalibrationLoop ==
    (~playback_mode /\ ~Truthy(cal.load_file) /\ (fg.op = "calibrate" \/ ret.op = "calibrate"))
        => /\ cal.load = 0
           /\ cal.start = (IF fg.op = "calibrate" /\ fg.step = "start" THEN 0 ELSE 1)
           /\ cal.step = cal.cont - (IF fg.op = "calibrate" /\ cal.proceed THEN 1 ELSE 0)
           /\ ret.op = "calibrate"
                => /\ ~cal.proceed
                   /\ cal.start = 1
                   /\ cal.step = (IF cal.ans THEN cal.k + 1 ELSE 0)

\* C9's case: start() answered true, step() continued exactly 3 times, and
\* calibrate has returned after 1 start() and 4 step() calls.
C9_Witness ==
    /\ ~playback_mode
    /\ ret.op = "calibrate"
    /\ ~Truthy(cal.load_file)
    /\ cal.ans
    /\ cal.k = 3
    /\ cal.start = 1
    /\ cal.step = 4

\* C10: in a session that has a guide, calibrate() with a load path calls the
\* guide's load exactly once, never enters the step loop and makes no start(),
\* step() or save() call: no calibration file is written.
C10_LoadBypassesLoop ==
    (~playback_mode /\ Truthy(cal.load_file))
        => /\ cal.load = 1
           /\ cal.start = 0
           /\ cal.step = 0
           /\ cal.save = 0
           /\ cal.saved = "None"
           /\ fg.op # "calibrate"
           /\ ret = Ret("calibrate", "ok")

\* C10's case: calibrate(None, "cal.s2p") has returned on a session with a guide.
C10_Witness ==
    /\ ~playback_mode
    /\ ret.op = "calibrate"
    /\ cal.load_file = "cal.s2p"
    /\ cal.load = 1

\* The records _csv_streamer yields from a recording of the rows given: the
\* j-th is made of data lines data_points*(j-1)+1 .. data_points*j.
Group(rows, j) == SubSeq(rows, data_points * (j - 1) + 1, data_points * j)

\* C11: reading a recording (a header line and L data lines in the recording
\* format) yields records that are, in order, the successive groups of
\* data_points data lines, each equal to the rows it was written from; read
\* without looping up to the end of the file, it has yielded exactly
\* L \div data_points records, so a trailing group of fewer lines is dropped.
C11_RecordsAreGroupsOfLines ==
    (csv.st # "idle" /\ csv.readable /\ ~csv.tail)
        => /\ \A j \in 1..Len(csv.got) : csv.got[j] = Group(csv.rows, j)
           /\ (~csv.loop /\ csv.st \in {"ended", "raised"})
                => Len(csv.got) = Len(csv.rows) \div data_points

\* C11's case: a recording of 11 data lines, two whole sweeps and one line more,
\* has been read to its end without looping and has yielded two records.
C11_Witness ==
    /\ csv.st = "ended"
    /\ csv.readable
    /\ ~csv.tail
    /\ ~csv.loop
    /\ Len(csv.rows) = 2 * data_points + 1
    /\ csv.rows[1] # csv.rows[data_points + 1]
    /\ csv.got = <<Group(csv.rows, 1), Group(csv.rows, 2)>>

C13_UnreadablePathFails == ~csv.readable => csv.st # "ended"

\* C14: with looping requested the replay of a one-sweep recording never ends
\* and every record it yields is that sweep; without looping a replay yields
\* no more records than the file holds.
C14_LoopReopensAtEndOfFile ==
    /\ (csv.loop /\ csv.readable /\ ~csv.tail /\ Len(csv.rows) = data_points)
        => /\ csv.st \notin {"ended", "raised"}
           /\ \A j \in 1..Len(csv.got) : csv.got[j] = csv.rows
    /\ (~csv.loop /\ csv.readable /\ ~csv.tail)
        => Len(csv.got) <= Len(csv.rows) \div data_points

\* C15: when save_csv has returned on a live session, the file holds the
\* header row and data_points rows for each of the nr_sweeps sweeps.
C15_SaveCsvWritesTheSweeps ==
    (~playback_mode /\ ret.op = "save_csv")
        => /\ sav.header
           /\ sav.rows = data_points * sav.nr_sweeps

\* C16: a stop request is never undone: while _stop_worker, having cleared
\* worker.running, waits in join() for the thread, the flag is not set back to
\* true (so the loop observes the stop after the pass in flight and the join
\* returns).
C16_StopIsNotUndone == (fg.step = "join") => ~running

\* C17 as stated: whenever the caller holds the sequence stream_data() returned
\* for a live source, pulled from or not, its thread has been started.
C17_ThreadStartedOnOpen ==
    \A g \in Streams :
        (kind[g] = "live" /\ gen[g] \in {"fresh", "running", "suspended", "left"})
            => thr[g] # "none"

\* C17: the thread of a live stream is started by the first pull, not by the
\* stream_data() call: no thread has been started for a sequence not yet pulled
\* from, and the thread has been started for every sequence pulled from.
C17_ThreadStartedAtFirstPull ==
    \A g \in Streams :
        kind[g] = "live"
            => /\ gen[g] = "fresh" => thr[g] = "none"
               /\ gen[g] \in {"running", "suspended", "left"} => thr[g] # "none"

\* C17's case: the caller holds a live sequence that has yielded an item.
C17_Witness ==
    /\ kind[1] = "live"
    /\ gen[1] = "suspended"
    /\ thr[1] \in {"pass", "check"}

\* C18: while a background thread is alive the foreground does not run
\* worker.run: single_sweep is never inside run() next to a live thread.
C18_ForegroundKeepsOffTheProducer ==
    (AliveThreads # {}) => ~(fg.op = "single_sweep" /\ fg.step \in {"pass", "exit"})

\* C19: in playback mode no operation ends in an error for lack of the worker,
\* the handle or the worker thread.
C19_PlaybackNeverFails == playback_mode => ret.res # "AttributeError"

\* C20: no step of a recorded stream changes worker.running, makes the
\* foreground wait for a thread, or ends in an error.
C20_RecordedStreamLeavesLiveSideAlone ==
    [][\A g \in Streams :
          (kind'[g] = "file" /\ gen'[g] # gen[g])
              => /\ running' = running
                 /\ fg'.step # "join"
                 /\ ret'.res # "AttributeError"]_vars
====
